---- MODULE Spec2Model ----
(***************************************************************************)
(* Model of src/src/App.tsx: the feed subscription handlers of the water   *)
(* quality dashboard, the one-minute history buffer they maintain and the  *)
(* status labels derived from the current values.                          *)
(*                                                                         *)
(* JavaScript values are tagged records so that NaN, null and undefined    *)
(* are values of the model: a number is [t |-> "num", v |-> n], NaN (and   *)
(* the time value of an Invalid Date) is [t |-> "NaN", v |-> 0], and the   *)
(* null of a useState<number | null> is [t |-> "null", v |-> 0].           *)
(* Times are milliseconds since the dashboard was mounted.                 *)
(***************************************************************************)
EXTENDS Integers, Sequences, FiniteSets, TLC

VARIABLES
    tds,          \* useState<number | null>
    temperature,  \* useState<number | null>
    lastUpdated,  \* useState<Date | null>, as the date's time value
    online,       \* useState<boolean>
    history,      \* useState<HistoryPoint[]>
    clock,        \* the wall clock read by new Date() and Date.now()
    nEvents,      \* ghost: number of feed events handled so far
    lastEvent,    \* ghost: "none", "reading", "null" or "error"
    lastRaw,      \* ghost: the raw record of the latest reading
    lastTs,       \* ghost: the clock when the latest reading was normalized
    nows,         \* ghost: the now read by each run of the history updater, in order
    arrivals      \* ghost: every point handed to the history updater, in order

vars == <<tds, temperature, lastUpdated, online, history, clock,
          nEvents, lastEvent, lastRaw, lastTs, nows, arrivals>>

(* ------------------------------ bounds --------------------------------- *)
MaxEvents == 3
MaxValueEvents == 2
MaxClock == 62000

(* ----------------------- constants of the program ---------------------- *)
TDS_SAFE_MAX == 500
TEMP_SAFE_MIN == 15
TEMP_SAFE_MAX == 30
WINDOW_MS == 60000

(* --------------------------- JavaScript values ------------------------- *)
Num(n) == [t |-> "num", v |-> n]
NaN == [t |-> "NaN", v |-> 0]
Null == [t |-> "null", v |-> 0]

\* a - b on numbers: NaN if either operand is NaN
Minus(a, b) == IF a.t = "num" /\ b.t = "num" THEN Num(a.v - b.v) ELSE NaN
\* a <= b and a >= b on numbers: false if either operand is NaN
Leq(a, b) == a.t = "num" /\ b.t = "num" /\ a.v <= b.v
Geq(a, b) == a.t = "num" /\ b.t = "num" /\ a.v >= b.v

\* raw fields of the record the feed delivers (number | string | undefined)
Undefined == [k |-> "undefined", n |-> 0, s |-> ""]
RawNum(n) == [k |-> "number", n |-> n, s |-> ""]
RawStr(s) == [k |-> "string", n |-> 0, s |-> s]
\* the ISO-8601 text of the instant ms
RawIso(ms) == [k |-> "string", n |-> ms, s |-> "iso"]

\* the numeric value of a string, as Number(string) computes it: the empty
\* string is 0, a decimal literal is its value, anything else is NaN
StringToNumber(s) ==
    CASE s = "" -> Num(0)
      [] s = "14" -> Num(14)
      [] s = "650" -> Num(650)
      [] OTHER -> NaN

\* Number(x)
ToNumber(x) ==
    CASE x.k = "number" -> Num(x.n)
      [] x.k = "string" -> StringToNumber(x.s)
      [] OTHER -> NaN

\* x ?? d
Coalesce(x, d) == IF x.k = "undefined" THEN d ELSE x

\* the truthiness of a string | undefined
Truthy(x) == x.k = "string" /\ x.s # ""

\* new Date(string).getTime(): the instant of an ISO text, NaN (Invalid
\* Date) for any other text
DateParse(x) == IF x.k = "string" /\ x.s = "iso" THEN Num(x.n) ELSE NaN

(* --------------------------- normalization ----------------------------- *)
tdsVal(value) == ToNumber(Coalesce(value.tds, RawNum(0)))
tempVal(value) == ToNumber(Coalesce(value.temperature, RawNum(0)))
ts(value, t) == IF Truthy(value.timestamp) THEN DateParse(value.timestamp) ELSE Num(t)

(* --------------------------- history buffer ---------------------------- *)
\* the id field is a ghost: the arrival number of the point
HistoryPoint(value, t, id) ==
    [time |-> ts(value, t), tds |-> tdsVal(value), temperature |-> tempVal(value), id |-> id]

KeepPointLoose(point, now) == Leq(Minus(Num(now), point.time), Num(WINDOW_MS + 1))
KeepPointStrict(point, now) ==
    Leq(Minus(Num(now), point.time), Num(WINDOW_MS))
    /\ Minus(Num(now), point.time) # Num(WINDOW_MS)
\* the filter predicate of the updater
KeepPoint(point, now) == Leq(Minus(Num(now), point.time), Num(WINDOW_MS))

NextHistoryPrepend(prev, point, now) ==
    SelectSeq(<<point>> \o prev, LAMBDA p : KeepPoint(p, now))
NextHistoryFromLog(prev, point, now) ==
    SelectSeq(arrivals \o <<point>>,
              LAMBDA p : Leq(Minus(point.time, p.time), Num(WINDOW_MS)))
\* the setHistory updater
NextHistory(prev, point, now) ==
    SelectSeq(prev \o <<point>>, LAMBDA p : KeepPoint(p, now))

(* ---------------------------- derived labels --------------------------- *)
TdsLabelStrict(x) ==
    IF x.t = "null" THEN "-"
    ELSE IF Leq(x, Num(TDS_SAFE_MAX)) /\ x # Num(TDS_SAFE_MAX) THEN "Safe"
    ELSE "High"
TdsLabel(x) ==
    IF x.t = "null" THEN "-"
    ELSE IF Leq(x, Num(TDS_SAFE_MAX)) THEN "Safe"
    ELSE "High"
TempLabel(x) ==
    IF x.t = "null" THEN "-"
    ELSE IF Geq(x, Num(TEMP_SAFE_MIN)) /\ Leq(x, Num(TEMP_SAFE_MAX)) THEN "Safe"
    ELSE "Out of range"

tdsStatus == TdsLabel(tds)
tempStatus == TempLabel(temperature)

(* ------------------------------ the feed ------------------------------- *)
Record(a, b, c) == [null |-> FALSE, tds |-> a, temperature |-> b, timestamp |-> c]
NullValue == [null |-> TRUE, tds |-> Undefined, temperature |-> Undefined, timestamp |-> Undefined]

\* the source's clock relative to the dashboard's, in ms
Skews == {0 - WINDOW_MS, 0, 30000}
TickSteps == {30000, 31000}
\* the time between new Date() in the callback and Date.now() in the updater
Lags == {0, 1}

\* records whose timestamps vary
TimedRecords(t) ==
    {Record(RawNum(300), RawNum(22), c) :
        c \in {Undefined, RawStr("abc")} \cup {RawIso(t + d) : d \in Skews}}

\* records whose measurements vary
ValueRecords(t) ==
    {Record(RawNum(300), RawNum(22), Undefined),
     Record(RawNum(650), RawNum(35), RawIso(t)),
     Record(RawNum(500), RawNum(15), RawStr("")),
     Record(RawNum(501), RawNum(30), Undefined),
     Record(RawNum(0), RawNum(31), Undefined),
     Record(Undefined, RawStr("14"), Undefined),
     Record(RawStr("650"), RawNum(14), RawIso(t - WINDOW_MS)),
     Record(RawStr("abc"), Undefined, Undefined),
     Record(RawStr(""), RawStr("abc"), Undefined)}

(* ------------------------------- actions ------------------------------- *)
Init ==
    /\ tds = Null
    /\ temperature = Null
    /\ lastUpdated = Null
    /\ online = FALSE
    /\ history = <<>>
    /\ clock = 0
    /\ nEvents = 0
    /\ lastEvent = "none"
    /\ lastRaw = NullValue
    /\ lastTs = 0
    /\ nows = <<>>
    /\ arrivals = <<>>

\* the success callback of onValue, with the setHistory updater it queues;
\* lag is the time between new Date() in the callback and Date.now() in the
\* updater
OnSnapshot(value, lag) ==
    /\ nEvents' = nEvents + 1
    /\ IF value.null
       THEN /\ online' = FALSE
            /\ lastEvent' = "null"
            /\ UNCHANGED <<tds, temperature, lastUpdated, history, clock,
                           lastRaw, lastTs, nows, arrivals>>
       ELSE LET point == HistoryPoint(value, clock, Len(arrivals) + 1)
                now == clock + lag
            IN  /\ tds' = tdsVal(value)
                /\ temperature' = tempVal(value)
                /\ lastUpdated' = ts(value, clock)
                /\ online' = TRUE
                /\ history' = NextHistory(history, point, now)
                /\ clock' = now
                /\ lastEvent' = "reading"
                /\ lastRaw' = value
                /\ lastTs' = clock
                /\ nows' = Append(nows, now)
                /\ arrivals' = Append(arrivals, point)

OnErrorClearsHistory ==
    /\ nEvents < MaxEvents
    /\ nEvents' = nEvents + 1
    /\ online' = FALSE
    /\ history' = <<>>
    /\ lastEvent' = "error"
    /\ UNCHANGED <<tds, temperature, lastUpdated, clock,
                   lastRaw, lastTs, nows, arrivals>>
OnErrorKeepsOnline ==
    /\ nEvents < MaxEvents
    /\ nEvents' = nEvents + 1
    /\ lastEvent' = "error"
    /\ UNCHANGED <<tds, temperature, lastUpdated, online, history, clock,
                   lastRaw, lastTs, nows, arrivals>>
OnErrorResetsValues ==
    /\ nEvents < MaxEvents
    /\ nEvents' = nEvents + 1
    /\ online' = FALSE
    /\ tds' = Null
    /\ temperature' = Null
    /\ lastUpdated' = Null
    /\ lastEvent' = "error"
    /\ UNCHANGED <<history, clock, lastRaw, lastTs, nows, arrivals>>
\* the error callback of onValue
OnError ==
    /\ nEvents < MaxEvents
    /\ nEvents' = nEvents + 1
    /\ online' = FALSE
    /\ lastEvent' = "error"
    /\ UNCHANGED <<tds, temperature, lastUpdated, history, clock,
                   lastRaw, lastTs, nows, arrivals>>

\* time passes between feed events
Tick(d) ==
    /\ clock + d <= MaxClock
    /\ clock' = clock + d
    /\ UNCHANGED <<tds, temperature, lastUpdated, online, history,
                   nEvents, lastEvent, lastRaw, lastTs, nows, arrivals>>

SnapshotTimed ==
    /\ nEvents < MaxEvents
    /\ \E value \in {NullValue} \cup TimedRecords(clock), lag \in Lags : OnSnapshot(value, lag)
SnapshotValues ==
    /\ nEvents < MaxValueEvents
    /\ \E value \in {NullValue} \cup ValueRecords(clock), lag \in Lags : OnSnapshot(value, lag)
Elapse == \E d \in TickSteps : Tick(d)

Next == SnapshotTimed \/ OnError \/ Elapse
Spec == Init /\ [][Next]_vars

NextValues == SnapshotValues \/ OnError \/ Elapse
SpecValues == Init /\ [][NextValues]_vars

(* ------------------------- auxiliary definitions ----------------------- *)
Ids(h) == {h[i].id : i \in DOMAIN h}
nReadings == Len(arrivals)
lastNow == IF nows = <<>> THEN 0 ELSE nows[Len(nows)]
\* a feed event of the given kinds has just been handled
Handled(kinds) == nEvents' # nEvents /\ lastEvent' \in kinds

(* ------------------------------- claims -------------------------------- *)

\* C1: after each append, evaluated at time now, every element p of the
\* history buffer has a valid timestamp with now - p.timestamp <= 60000 ms.
C1_WindowAfterAppend ==
    \A i \in DOMAIN history :
        /\ history[i].time.t = "num"
        /\ lastNow - history[i].time.v <= 60000
\* an append has evicted an element of age 60001 ms and kept one of age
\* exactly 60000 ms
C1_Witness ==
    /\ lastEvent = "reading"
    /\ \E j \in DOMAIN arrivals :
        /\ j \notin Ids(history)
        /\ arrivals[j].time.t = "num"
        /\ lastNow - arrivals[j].time.v = 60001
    /\ \E i \in DOMAIN history : lastNow - history[i].time.v = 60000

\* C2: an append yields exactly the elements of the previous buffer followed
\* by the new reading whose age now - timestamp is at most 60000 ms: none
\* older is kept, none within the window is dropped, none is duplicated.
C2_AppendKeepsExactlyWindow ==
    [][Handled({"reading"}) =>
        LET cand == history \o <<arrivals'[Len(arrivals')]>>
            now == nows'[Len(nows')]
            kept == {i \in DOMAIN cand :
                        cand[i].time.t = "num" /\ now - cand[i].time.v <= 60000}
        IN  /\ Len(history') = Cardinality(kept)
            /\ \A i \in kept : \E j \in DOMAIN history' : history'[j] = cand[i]
            /\ \A j \in DOMAIN history' : \E i \in kept : history'[j] = cand[i]]_vars
\* readings stamped T, T+30s, T+61s, the last append evaluated at T+61s,
\* leave exactly the second and the third
C2_Witness ==
    /\ nReadings = 3
    /\ arrivals[1].time = Num(0)
    /\ arrivals[2].time = Num(30000)
    /\ arrivals[3].time = Num(61000)
    /\ lastNow = 61000
    /\ history = <<arrivals[2], arrivals[3]>>

\* C3: the buffer is a subsequence of the arrival sequence: every element is
\* an arrived reading, unchanged, and any two elements are in arrival order.
C3_ArrivalOrder ==
    /\ \A i \in DOMAIN history :
        /\ history[i].id \in DOMAIN arrivals
        /\ arrivals[history[i].id] = history[i]
    /\ \A i, j \in DOMAIN history : i < j => history[i].id < history[j].id
\* two retained elements whose timestamps decrease in arrival order, after an
\* eviction
C3_Witness ==
    /\ Len(history) >= 2
    /\ Len(history) < nReadings
    /\ history[1].time.v > history[2].time.v

\* C4: a null payload or a subscription error sets online to false and
\* leaves the history buffer exactly as it was.
C4_OfflineEventKeepsHistory ==
    [][Handled({"null", "error"}) => online' = FALSE /\ history' = history]_vars
\* a null payload was handled while a retained element was older than 60 s
C4_Witness ==
    /\ lastEvent = "null"
    /\ ~online
    /\ \E i \in DOMAIN history : clock - history[i].time.v > 60000

\* C5: the current values and every buffered element carry finite numeric
\* tds and temperature (a field that is absent or not a number becomes 0).
C5_FiniteValues ==
    /\ tds.t # "NaN"
    /\ temperature.t # "NaN"
    /\ \A i \in DOMAIN history : history[i].tds.t = "num" /\ history[i].temperature.t = "num"
    /\ (nReadings > 0 /\ lastRaw.tds \in {Undefined, RawStr("abc")}) => tds = Num(0)
    /\ (nReadings > 0 /\ lastRaw.temperature \in {Undefined, RawStr("abc")})
          => temperature = Num(0)

\* C6: a reading whose raw timestamp is absent or unparseable is stamped with
\* the time of normalization and is retained in the buffer by its own append.
C6_FallbackTimestamp ==
    (nReadings > 0 /\ ~(lastRaw.timestamp.k = "string" /\ lastRaw.timestamp.s = "iso"))
        => /\ lastUpdated = Num(lastTs)
           /\ arrivals[nReadings].time = Num(lastTs)
           /\ nReadings \in Ids(history)

\* C7: online is true exactly when the most recent feed event was a reading,
\* and a step that handles no feed event (time passing) never changes it.
C7_OnlineIffLastEventReading ==
    /\ [](online <=> (nEvents > 0 /\ lastEvent = "reading"))
    /\ [][nEvents' = nEvents => online' = online]_vars
\* still online after more than 60 s without a feed event
C7_Witness ==
    /\ online
    /\ nReadings > 0
    /\ clock - lastNow > 60000

\* C8: both labels are "-" before the first reading; afterwards the tds label
\* is "Safe" iff the latest reading's tds <= 500 and "High" otherwise, and the
\* temperature label is "Safe" iff 15 <= temperature <= 30 and "Out of range"
\* otherwise.
C8_StatusOfLatestReading ==
    IF nReadings = 0
    THEN tdsStatus = "-" /\ tempStatus = "-"
    ELSE LET r == arrivals[nReadings]
         IN  /\ tdsStatus \in {"Safe", "High"}
             /\ tdsStatus = "Safe" <=> (r.tds.t = "num" /\ r.tds.v <= 500)
             /\ tempStatus \in {"Safe", "Out of range"}
             /\ tempStatus = "Safe" <=>
                   (r.temperature.t = "num" /\ 15 <= r.temperature.v /\ r.temperature.v <= 30)
             /\ (lastRaw.tds = RawNum(300) /\ lastRaw.temperature = RawNum(22))
                   => (tdsStatus = "Safe" /\ tempStatus = "Safe")
             /\ (lastRaw.tds = RawNum(650) /\ lastRaw.temperature = RawNum(35))
                   => (tdsStatus = "High" /\ tempStatus = "Out of range")
\* the boundary reading {tds: 500, temperature: 15} is classified
C8_Witness ==
    /\ nReadings > 0
    /\ lastRaw.tds = RawNum(500)
    /\ lastRaw.temperature = RawNum(15)
    /\ tdsStatus = "Safe"
    /\ tempStatus = "Safe"

\* C9: a reading that has arrived and is absent from the buffer is absent
\* from the buffer in every later state.
C9_EvictionMonotonic ==
    [][\A i \in DOMAIN arrivals : i \notin Ids(history) => i \notin Ids(history')]_vars
\* a reading with a valid timestamp was evicted by one append, and a later
\* append left a non-empty buffer without it
C9_Witness ==
    \E i \in DOMAIN arrivals : \E k \in DOMAIN nows :
        /\ i <= k
        /\ k < nReadings
        /\ arrivals[i].time.t = "num"
        /\ nows[k] - arrivals[i].time.v > 60000
        /\ i \notin Ids(history)
        /\ Len(history) >= 1

\* C10: the current values are null before the first reading and afterwards
\* equal the normalized values of the most recent reading, whether or not
\* that reading is in the buffer; a null payload or an error leaves them
\* unchanged, and a label never returns to "-".
C10_CurrentValuesAreLastReading ==
    /\ [](IF nReadings = 0
          THEN tds = Null /\ temperature = Null /\ lastUpdated = Null
          ELSE /\ tds = arrivals[nReadings].tds
               /\ temperature = arrivals[nReadings].temperature
               /\ lastUpdated = arrivals[nReadings].time
               /\ lastRaw.tds.k = "number" => tds = Num(lastRaw.tds.n)
               /\ lastRaw.temperature.k = "number" => temperature = Num(lastRaw.temperature.n))
    /\ [][Handled({"null", "error"}) =>
            tds' = tds /\ temperature' = temperature /\ lastUpdated' = lastUpdated]_vars
    /\ [][(tdsStatus # "-" => tdsStatus' # "-") /\ (tempStatus # "-" => tempStatus' # "-")]_vars
\* offline after a reading that its own append evicted, its values still shown
C10_Witness ==
    /\ lastEvent \in {"null", "error"}
    /\ ~online
    /\ nReadings > 0
    /\ nReadings \notin Ids(history)
    /\ arrivals[nReadings].time.t = "num"
    /\ lastNow - arrivals[nReadings].time.v > 60000
    /\ tds = Num(300)
    /\ tdsStatus = "Safe"
====
